---- MODULE Spec2Model ----
(***************************************************************************)
(* Model of the MQTT -> Supabase forwarder (src/index.js, lines 1-291).    *)
(*                                                                         *)
(* JavaScript strings are sequences of one-character strings; a falsy      *)
(* string value (undefined, null, "") is the empty sequence, because every *)
(* place of the code that reads an identifier treats the three alike       *)
(* (`mac || ''`, `!mac`, `json?.beacon_mac`).  Temperatures are JavaScript *)
(* values: a record tagged "number" (value in thousandths of a degree),    *)
(* "NaN" (typeof NaN is 'number') or "undefined".  Date.now() is `clock`,  *)
(* counted in ticks.  One action is one run of the event loop: the code    *)
(* between two awaits executes atomically.                                 *)
(***************************************************************************)
EXTENDS Integers, Sequences, FiniteSets, TLC

VARIABLES
    clock,              \* Date.now()
    SEND_INTERVAL_MS,   \* configuration, fixed at start
    TEMP_DELTA,         \* configuration, fixed at start
    REST_BASE,          \* TRUE when a REST base could be derived from the URL
    BEACON_WHITELIST,   \* configuration: the raw comma-separated string
    allowlistSet,       \* the in-memory allowlist
    lastSentByBeacon,   \* Map normMac -> [tsMs, temp]
    sync,               \* the refresh task and its schedule
    client,             \* broker connection: "connecting" | "subscribed"
    handlers,           \* message-handler invocations in flight
    finished,           \* the handler invocation that ended last
    delivered,          \* number of broker messages delivered so far
    fwdHist,            \* per canonical device: its last two hand-offs to the Forwarder
    lastPost            \* outcome of the most recently completed forward POST

vars == <<clock, SEND_INTERVAL_MS, TEMP_DELTA, REST_BASE, BEACON_WHITELIST,
          allowlistSet, lastSentByBeacon, sync, client, handlers, finished,
          delivered, fwdHist, lastPost>>

----------------------------------------------------------------------------
\* Bounds of the model

MaxTime == 2
MaxMsgs == 2
MaxHandlers == 2

----------------------------------------------------------------------------
\* Strings

toLowerChar(c) ==
    CASE c = "A" -> "a" [] c = "B" -> "b" [] c = "C" -> "c"
      [] c = "D" -> "d" [] c = "E" -> "e" [] c = "F" -> "f"
      [] c = "G" -> "g" [] OTHER -> c

toLowerCase(s) == [i \in 1..Len(s) |-> toLowerChar(s[i])]

isSpace(c) == c = " "

RECURSIVE trimStart(_)
trimStart(s) ==
    IF s # <<>> /\ isSpace(Head(s)) THEN trimStart(Tail(s)) ELSE s

RECURSIVE trimEnd(_)
trimEnd(s) ==
    IF s # <<>> /\ isSpace(s[Len(s)]) THEN trimEnd(SubSeq(s, 1, Len(s) - 1)) ELSE s

trim(s) == trimEnd(trimStart(s))

\* s.split(sep): the pieces of s between the occurrences of sep
RECURSIVE splitFrom(_, _, _)
splitFrom(s, sep, cur) ==
    IF s = <<>> THEN <<cur>>
    ELSE IF Head(s) = sep THEN <<cur>> \o splitFrom(Tail(s), sep, <<>>)
    ELSE splitFrom(Tail(s), sep, Append(cur, Head(s)))

split(s, sep) == splitFrom(s, sep, <<>>)

Range(f) == {f[i] : i \in DOMAIN f}

----------------------------------------------------------------------------
\* Normalization and allowlist helpers

\* String(mac || '').toLowerCase().replace(/:/g, '')
normalizeMac(mac) == SelectSeq(toLowerCase(mac), LAMBDA c : c # ":")

\* new Set(String(BEACON_WHITELIST || '').split(',').map(trim+lower).filter(Boolean))
envWhitelistOf(raw) ==
    {toLowerCase(trim(p)) : p \in Range(split(raw, ","))} \ {<<>>}

envWhitelist == envWhitelistOf(BEACON_WHITELIST)

----------------------------------------------------------------------------
\* JavaScript values

Num(n) == [t |-> "number", v |-> n]
NaN == [t |-> "NaN", v |-> 0]
Undefined == [t |-> "undefined", v |-> 0]

\* typeof x === 'number'
typeofNumber(x) == x.t \in {"number", "NaN"}

Abs(n) == IF n < 0 THEN -n ELSE n

\* Math.abs(a - b) on two values whose typeof is 'number'
absDiff(a, b) ==
    IF a.t = "number" /\ b.t = "number" THEN Num(Abs(a.v - b.v)) ELSE NaN

\* x >= n for a value x whose typeof is 'number' and an ordinary number n
jsGeq(x, n) == x.t = "number" /\ x.v >= n

----------------------------------------------------------------------------
\* Allowlist Store

\* Lines 69-73: the set built from a response body.  A row that is null makes
\* `r.is_active` throw inside the try block.
rowsOf(res) == IF res.isArray THEN res.rows ELSE <<>>

nextAllowlist(res) ==
    LET rows == rowsOf(res)
        kept == SelectSeq(rows, LAMBDA r : r.is_active # "false")
    IN  ({toLowerCase(r.normalized_mac) : r \in Range(kept)} \ {<<>>})
            \cup envWhitelist

\* syncAllowlistFromDB falling back to the bootstrap set when the GET fails
syncResetsOnFailure(res, allow) ==
    IF res.kind = "rejected"
        THEN [allow |-> envWhitelist, raised |-> FALSE, log |-> "warn"]
    ELSE IF \E i \in DOMAIN rowsOf(res) : rowsOf(res)[i].isNull
        THEN [allow |-> allow, raised |-> FALSE, log |-> "warn"]
    ELSE [allow |-> nextAllowlist(res), raised |-> FALSE, log |-> "info"]

\* syncAllowlistFromDB without its catch block: a failed GET rejects the call
syncRethrows(res, allow) ==
    IF res.kind = "rejected"
        THEN [allow |-> allow, raised |-> TRUE, log |-> "none"]
    ELSE IF \E i \in DOMAIN rowsOf(res) : rowsOf(res)[i].isNull
        THEN [allow |-> allow, raised |-> TRUE, log |-> "none"]
    ELSE [allow |-> nextAllowlist(res), raised |-> FALSE, log |-> "info"]

\* syncAllowlistFromDB filling the live set in place: cleared, then one row
\* after the other, the bootstrap entries last
syncInPlace(res, allow) ==
    IF res.kind = "rejected"
        THEN [allow |-> allow, raised |-> FALSE, log |-> "warn"]
    ELSE IF \E i \in DOMAIN rowsOf(res) : rowsOf(res)[i].isNull
        THEN [allow |->
                {toLowerCase(rowsOf(res)[j].normalized_mac) :
                    j \in {k \in DOMAIN rowsOf(res) :
                            \A i \in 1..k : ~rowsOf(res)[i].isNull}},
              raised |-> FALSE, log |-> "warn"]
    ELSE [allow |-> nextAllowlist(res), raised |-> FALSE, log |-> "info"]

\* Lines 61-77: what one completed `axios.get` does to the allowlist.
\* raised: an error escapes the function.
syncAllowlistFromDB(res, allow) ==
    IF res.kind = "rejected"
        THEN [allow |-> allow, raised |-> FALSE, log |-> "warn"]
    ELSE IF \E i \in DOMAIN rowsOf(res) : rowsOf(res)[i].isNull
        THEN [allow |-> allow, raised |-> FALSE, log |-> "warn"]
    ELSE [allow |-> nextAllowlist(res), raised |-> FALSE, log |-> "info"]

\* shouldForwardMac looking the raw identifier up without normalizing it
shouldForwardRaw(rawMac, allow) ==
    IF Cardinality(allow) = 0 THEN TRUE ELSE rawMac \in allow

\* Lines 80-84
shouldForwardMac(rawMac, allow) ==
    LET norm == normalizeMac(rawMac)
    IN  IF Cardinality(allow) = 0 THEN TRUE ELSE norm \in allow

----------------------------------------------------------------------------
\* Throttle Engine

MapHas(m, k) == k \in DOMAIN m

MapSet(m, k, val) ==
    [x \in DOMAIN m \cup {k} |-> IF x = k THEN val ELSE m[x]]

\* shouldSendNow with the delta compared by > instead of >=
shouldSendNowStrict(rawMac, temperature, lastSent, now) ==
    LET norm == normalizeMac(rawMac)
    IN  IF ~MapHas(lastSent, norm) THEN TRUE
        ELSE LET prev == lastSent[norm]
                 age == now - prev.tsMs
                 delta == absDiff(temperature, prev.temp)
             IN  IF delta.t = "number" /\ delta.v > TEMP_DELTA THEN TRUE
                 ELSE age >= SEND_INTERVAL_MS

\* Lines 86-97
shouldSendNow(rawMac, temperature, lastSent, now) ==
    LET norm == normalizeMac(rawMac)
    IN  IF ~MapHas(lastSent, norm) THEN TRUE
        ELSE LET prev == lastSent[norm]
                 age == now - prev.tsMs
                 delta == IF typeofNumber(temperature) /\ typeofNumber(prev.temp)
                             THEN absDiff(temperature, prev.temp)
                             ELSE Num(0)
             IN  IF jsGeq(delta, TEMP_DELTA) THEN TRUE
                 ELSE age >= SEND_INTERVAL_MS

\* Lines 99-102
markSent(rawMac, temperature, lastSent, now) ==
    MapSet(lastSent, normalizeMac(rawMac), [tsMs |-> now, temp |-> temperature])

----------------------------------------------------------------------------
\* Message Router helpers

\* Lines 145-148
extractGatewayMac(topic) ==
    LET parts == split(topic, "/")
    IN  IF Len(parts) >= 2 THEN parts[2] ELSE <<"u","n","k","n","o","w","n">>

HexDigits ==
    <<"0","1","2","3","4","5","6","7","8","9","a","b","c","d","e","f">>

\* the value of a hexadecimal digit, -1 for any other character
hexVal(c) ==
    LET l == toLowerChar(c)
    IN  IF \E i \in 1..16 : HexDigits[i] = l
            THEN (CHOOSE i \in 1..16 : HexDigits[i] = l) - 1
            ELSE -1

\* the longest prefix of hexadecimal digits
RECURSIVE hexPrefix(_)
hexPrefix(s) ==
    IF s = <<>> \/ hexVal(Head(s)) < 0 THEN <<>>
    ELSE <<Head(s)>> \o hexPrefix(Tail(s))

RECURSIVE hexValue(_, _)
hexValue(s, acc) ==
    IF s = <<>> THEN acc ELSE hexValue(Tail(s), acc * 16 + hexVal(Head(s)))

\* parseInt(s, 16): leading white space, a sign, an optional 0x, then the
\* longest run of hexadecimal digits; NaN when that run is empty.
digitsValue(digits) ==
    IF digits = <<>> THEN NaN ELSE Num(hexValue(digits, 0))

dropHexPrefix(s) ==
    IF Len(s) >= 2 /\ s[1] = "0" /\ s[2] \in {"x", "X"}
        THEN SubSeq(s, 3, Len(s)) ELSE s

dropSign(s) == IF s # <<>> /\ Head(s) \in {"-", "+"} THEN Tail(s) ELSE s

withSign(s, x) ==
    IF s # <<>> /\ Head(s) = "-" /\ x.t = "number" THEN Num(-x.v) ELSE x

signedHex(s) == withSign(s, digitsValue(hexPrefix(dropHexPrefix(dropSign(s)))))

parseInt16(s) == signedHex(trimStart(s))

\* s.substring(a, b) for 0 <= a <= b
substring(s, a, b) ==
    SubSeq(s, a + 1, IF b > Len(s) THEN Len(s) ELSE b)

\* Number(`${tempInt}.${String(tempDec).padStart(2, '0')}`), in thousandths.
\* tempDec is at most two hexadecimal digits wide (0..255), so the fraction
\* has two digits below 100 and three from 100 on; a negative tempDec gives
\* a text such as "26.-5", which is not a number.
composeTemperature(tempInt, tempDec) ==
    IF tempInt.t # "number" \/ tempDec.t # "number" THEN NaN
    ELSE IF tempDec.v < 0 THEN NaN
    ELSE LET frac == IF tempDec.v < 100 THEN tempDec.v * 10 ELSE tempDec.v
         IN  IF tempInt.v < 0 THEN Num(-(Abs(tempInt.v) * 1000 + frac))
             ELSE Num(tempInt.v * 1000 + frac)

\* parseReadingFromRaw reading the temperature one byte pair early
parseReadingShifted(advRaw, srpRaw) ==
    [temperature |->
        IF advRaw # <<>> /\ Len(advRaw) >= 14
            THEN composeTemperature(parseInt16(substring(advRaw, 8, 10)),
                                    parseInt16(substring(advRaw, 10, 12)))
            ELSE Undefined,
     battery |->
        IF srpRaw # <<>> /\ Len(srpRaw) >= 18
            THEN parseInt16(substring(srpRaw, 14, 18))
            ELSE Undefined]

\* Lines 151-175
parseReadingFromRaw(advRaw, srpRaw) ==
    [temperature |->
        IF advRaw # <<>> /\ Len(advRaw) >= 14
            THEN composeTemperature(parseInt16(substring(advRaw, 10, 12)),
                                    parseInt16(substring(advRaw, 12, 14)))
            ELSE Undefined,
     battery |->
        IF srpRaw # <<>> /\ Len(srpRaw) >= 18
            THEN parseInt16(substring(srpRaw, 14, 18))
            ELSE Undefined]

----------------------------------------------------------------------------
\* Forwarder

\* Lines 177-198: the log level forwardToSupabase ends with for one outcome
\* of `axios.post` ("none": no log).  axios resolves for a 2xx status and
\* rejects otherwise; a rejection carries a response or not (transport
\* error, timeout), and the response a body or not.
forwardToSupabase(out) ==
    IF out.kind = "resolved"
        THEN [raised |-> FALSE,
              log |-> IF out.status # 200 THEN "warn" ELSE "none"]
    ELSE LET hasData == out.hasResponse /\ out.hasData   \* err.response?.data
         IN  IF hasData /\ (out.error = "Beacon not registered"
                            \/ (out.hasResponse /\ out.status = 404))
                 THEN [raised |-> FALSE, log |-> "debug"]
                 ELSE [raised |-> FALSE, log |-> "error"]

\* the POST was a successful hand-off: resolved with HTTP 200
postSucceeded(out) == out.kind = "resolved" /\ out.status = 200

----------------------------------------------------------------------------
\* Message handler (lines 200-291)

\* pickTemperature trying the aliases in the reverse order
pickTemperatureReversed(json) ==
    IF typeofNumber(json.temp_c) THEN json.temp_c
    ELSE IF typeofNumber(json.temperature) THEN json.temperature
    ELSE IF typeofNumber(json.temperature_c) THEN json.temperature_c
    ELSE Undefined

\* Lines 223-226: the first alias that holds a number
pickTemperature(json) ==
    IF typeofNumber(json.temperature_c) THEN json.temperature_c
    ELSE IF typeofNumber(json.temperature) THEN json.temperature
    ELSE IF typeofNumber(json.temp_c) THEN json.temp_c
    ELSE Undefined

\* Lines 233-240
simplifiedBody(json, temperature, gwMac) ==
    [mac_address |-> json.beacon_mac,
     temperature |-> temperature,
     battery |-> IF typeofNumber(json.battery_mv) THEN json.battery_mv
                 ELSE IF typeofNumber(json.battery) THEN json.battery
                 ELSE Num(0),
     gateway_mac |-> gwMac]

\* Lines 276-281
scanBody(mac, reading, gwMac) ==
    [mac_address |-> mac,
     temperature |-> reading.temperature,
     battery |-> IF typeofNumber(reading.battery) THEN reading.battery ELSE Num(0),
     gateway_mac |-> gwMac]

\* the four conditions of one candidate reading, each evaluated on its own
conditions(mac, temperature, allow, lastSent, now) ==
    [hasAddr |-> mac # <<>>,
     allowed |-> shouldForwardMac(mac, allow),
     hasTemp |-> typeofNumber(temperature),
     pass |-> shouldSendNow(mac, temperature, lastSent, now)]

\* Lines 217-232: what the handler does with a simplified reading whose
\* first numeric alias is `temperature`
simplifiedVerdict(mac, temperature, allow, lastSent, now) ==
    IF ~shouldForwardMac(mac, allow) THEN "allowlist"
    ELSE IF ~typeofNumber(temperature) THEN "no_temperature"
    ELSE IF ~shouldSendNow(mac, temperature, lastSent, now) THEN "throttled"
    ELSE "forward"

\* Lines 259-275: what one iteration of the scan-report loop does with an
\* entry whose address is `mac` and whose decoded temperature is `temperature`
scanVerdict(mac, temperature, allow, lastSent, now) ==
    IF mac = <<>> THEN "no_addr"
    ELSE IF ~shouldForwardMac(mac, allow) THEN "allowlist"
    ELSE IF ~typeofNumber(temperature) THEN "no_temperature"
    ELSE IF ~shouldSendNow(mac, temperature, lastSent, now) THEN "throttled"
    ELSE "forward"

Event(ev, idx, mac, temp, cond) ==
    [ev |-> ev, idx |-> idx, mac |-> mac, temp |-> temp, cond |-> cond]

scanEvent(i, mac, temperature, allow, lastSent, now) ==
    Event(scanVerdict(mac, temperature, allow, lastSent, now), i, mac, temperature,
          conditions(mac, temperature, allow, lastSent, now))

\* Lines 258-286: the loop runs from entry i until it reaches an entry to
\* forward (it then suspends in `await forwardToSupabase`) or the end.
RECURSIVE scanLoop(_, _, _, _, _)
RECURSIVE scanFrom(_, _, _, _, _, _)
scanFrom(devs, i, e, allow, lastSent, now) ==
    IF e.ev = "forward" THEN <<e>>
    ELSE <<e>> \o scanLoop(devs, i + 1, allow, lastSent, now)

scanLoop(devs, i, allow, lastSent, now) ==
    IF i > Len(devs) THEN <<>>
    ELSE scanFrom(devs, i,
            scanEvent(i, devs[i].addr,
                parseReadingFromRaw(devs[i].adv_raw, devs[i].srp_raw).temperature,
                allow, lastSent, now),
            allow, lastSent, now)

\* Line 250
isScanReport(json) == json.pkt_type = "scan_report" /\ json.hasDevInfos

NoBody ==
    [mac_address |-> <<>>, temperature |-> Undefined,
     battery |-> Undefined, gateway_mac |-> <<>>]

NoCond == [hasAddr |-> FALSE, allowed |-> FALSE, hasTemp |-> FALSE, pass |-> FALSE]

Idle ==
    [pc |-> "idle", kind |-> "none", devs |-> <<>>, n |-> 0, idx |-> 0,
     gwMac |-> <<>>, body |-> NoBody, forwarded |-> 0, trace |-> <<>>]

Finished(hd) == [hd EXCEPT !.pc = "done", !.devs = <<>>, !.body = NoBody]

\* Lines 288-290: the count log
countLog(forwarded) ==
    IF forwarded > 0
        THEN <<Event("count", forwarded, <<>>, Undefined, NoCond)>>
        ELSE <<>>

\* Lines 276-290: the loop has produced the decisions evs; it is suspended in
\* the forward of the last one, or it has ended
scanOutcome(hd, evs) ==
    IF evs # <<>> /\ evs[Len(evs)].ev = "forward"
        THEN [hd EXCEPT
                !.pc = "awaitScan",
                !.idx = evs[Len(evs)].idx,
                !.body = scanBody(hd.devs[evs[Len(evs)].idx].addr,
                            parseReadingFromRaw(hd.devs[evs[Len(evs)].idx].adv_raw,
                                                hd.devs[evs[Len(evs)].idx].srp_raw),
                            hd.gwMac),
                !.trace = hd.trace \o evs]
        ELSE Finished([hd EXCEPT
                !.idx = Len(hd.devs) + 1,
                !.trace = hd.trace \o evs \o countLog(hd.forwarded)])

\* Lines 258-290 from entry i on
resumeScan(hd, i, allow, lastSent, now) ==
    scanOutcome(hd, scanLoop(hd.devs, i, allow, lastSent, now))

\* Lines 228-247: the simplified reading was decided as e
simplifiedOutcome(hd, m, e) ==
    IF e.ev = "forward"
        THEN [hd EXCEPT !.pc = "awaitSimple", !.kind = "simplified",
                        !.body = simplifiedBody(m, e.temp, hd.gwMac),
                        !.trace = <<e>>]
        ELSE Finished([hd EXCEPT !.kind = "simplified", !.trace = <<e>>])

simplifiedEvent(mac, temperature, allow, lastSent, now) ==
    Event(simplifiedVerdict(mac, temperature, allow, lastSent, now), 0, mac,
          temperature, conditions(mac, temperature, allow, lastSent, now))

\* routeMessage with JSON.parse outside the try block: the SyntaxError leaves
\* the handler
routeMessageUncaught(hd, m, allow, lastSent, now) ==
    IF ~m.valid
        THEN Finished([hd EXCEPT !.kind = "faulted"])
    ELSE IF m.beacon_mac # <<>>
        THEN simplifiedOutcome(hd, m,
                simplifiedEvent(m.beacon_mac, pickTemperature(m), allow, lastSent, now))
    ELSE IF ~isScanReport(m)
        THEN Finished([hd EXCEPT !.kind = "ignored",
                !.trace = <<Event("ignored", 0, <<>>, Undefined, NoCond)>>])
    ELSE resumeScan([hd EXCEPT !.kind = "scan", !.devs = m.dev_infos,
                               !.n = Len(m.dev_infos)],
                    1, allow, lastSent, now)

\* Lines 206-291 up to the first await, gwMac being in hd
routeMessage(hd, m, allow, lastSent, now) ==
    IF ~m.valid
        THEN Finished([hd EXCEPT !.kind = "invalid",
                !.trace = <<Event("invalid_json", 0, <<>>, Undefined, NoCond)>>])
    ELSE IF m.beacon_mac # <<>>
        THEN simplifiedOutcome(hd, m,
                simplifiedEvent(m.beacon_mac, pickTemperature(m), allow, lastSent, now))
    ELSE IF ~isScanReport(m)
        THEN Finished([hd EXCEPT !.kind = "ignored",
                !.trace = <<Event("ignored", 0, <<>>, Undefined, NoCond)>>])
    ELSE resumeScan([hd EXCEPT !.kind = "scan", !.devs = m.dev_infos,
                               !.n = Len(m.dev_infos)],
                    1, allow, lastSent, now)

\* Lines 200-291 up to the first await: the handler of one message
handleMessage(m, allow, lastSent, now) ==
    routeMessage([Idle EXCEPT !.gwMac = extractGatewayMac(m.topic)],
                 m, allow, lastSent, now)

\* mapAfterMessage with markSent called before the throttle check of a
\* simplified reading
mapMarkedEarly(m, allow, lastSent, now) ==
    IF m.valid /\ m.beacon_mac # <<>> /\ typeofNumber(pickTemperature(m))
        THEN markSent(m.beacon_mac, pickTemperature(m), lastSent, now)
        ELSE lastSent

\* Lines 200-240 and 250-281: the throttle map when the handler of message m
\* reaches its first await or its end; no markSent lies on these paths
mapAfterMessage(m, allow, lastSent, now) == lastSent

\* Lines 241-243 and 282-290: the handler resumes after its forward call
resumeAfterForward(hd, fw, allow, lastSent, now) ==
    IF fw.raised THEN Finished([hd EXCEPT !.kind = "faulted"])
    ELSE IF hd.pc = "awaitSimple" THEN Finished(hd)
    ELSE resumeScan([hd EXCEPT !.forwarded = hd.forwarded + 1],
                    hd.idx + 1, allow, lastSent, now)

\* mapAfterForward with the markSent of a scan-report entry left out
mapUnmarkedInScan(hd, fw, lastSent, now) ==
    IF fw.raised \/ hd.pc = "awaitScan" THEN lastSent
    ELSE markSent(hd.body.mac_address, hd.body.temperature, lastSent, now)

\* the throttle map after the handler resumed
mapAfterForward(hd, fw, lastSent, now) ==
    IF fw.raised THEN lastSent
    ELSE markSent(hd.body.mac_address, hd.body.temperature, lastSent, now)

awaiting(hd) == hd.pc \in {"awaitSimple", "awaitScan"}

\* the last two hand-offs to the Forwarder of each canonical device
histOf(hist, norm) == IF norm \in DOMAIN hist THEN hist[norm] ELSE <<>>

lastTwo(old, rec) == IF old = <<>> THEN <<rec>> ELSE <<old[Len(old)], rec>>

pushKey(hist, norm, rec) == MapSet(hist, norm, lastTwo(histOf(hist, norm), rec))

pushHist(hist, hd, now) ==
    IF ~awaiting(hd) THEN hist
    ELSE pushKey(hist, normalizeMac(hd.body.mac_address),
                 [ts |-> now, temp |-> hd.body.temperature])

----------------------------------------------------------------------------
\* Inputs

macAB == <<"A", ":", "B">>      \* "A:B"
macab == <<"a", "b">>           \* "ab", the same device as "A:B"
macCD == <<"c", "d">>
macEF == <<"e", "f">>

\* an advertisement of 16 characters whose temperature bytes are hi and lo
adv(hi, lo) == <<"0","0","0","0","0","0","0","0","0","0">> \o hi \o lo \o <<"0","0">>

adv2605 == adv(<<"1","A">>, <<"0","5">>)   \* 26.05
adv2625 == adv(<<"1","A">>, <<"1","9">>)   \* 26.25
advShort == <<"1","A","0","5">>
advBad == adv(<<"G","G">>, <<"0","5">>)    \* not hexadecimal at offsets 10-12

Dev(addr, advRaw) == [addr |-> addr, adv_raw |-> advRaw, srp_raw |-> <<>>]

topicGw == <<"G", "/", "1">>
topicGw2 == <<"G", "/", "2", "/", "x">>

Json ==
    [topic |-> topicGw, valid |-> TRUE, beacon_mac |-> <<>>,
     temperature_c |-> Undefined, temperature |-> Undefined, temp_c |-> Undefined,
     battery_mv |-> Undefined, battery |-> Undefined,
     pkt_type |-> "none", hasDevInfos |-> FALSE, dev_infos |-> <<>>]

Scan(devs) ==
    [Json EXCEPT !.pkt_type = "scan_report", !.hasDevInfos = TRUE, !.dev_infos = devs]

Messages ==
    { [Json EXCEPT !.valid = FALSE],
      [Json EXCEPT !.pkt_type = "heartbeat"],
      [Json EXCEPT !.beacon_mac = macAB, !.temperature_c = Num(26000),
                   !.temperature = Num(26300), !.battery_mv = Num(3100),
                   !.battery = Num(3000)],
      [Json EXCEPT !.beacon_mac = macab, !.temperature = Num(26300),
                   !.temp_c = Num(26200)],
      [Json EXCEPT !.topic = topicGw2, !.beacon_mac = macab,
                   !.temp_c = Num(26200), !.battery = Num(2900)],
      [Json EXCEPT !.beacon_mac = macCD, !.battery = Num(3000)],
      Scan(<<Dev(macab, adv2605), Dev(macEF, adv2605), Dev(macCD, adv2605)>>),
      Scan(<<Dev(<<>>, adv2605), Dev(macCD, advShort), Dev(macAB, adv2625),
             Dev(macEF, advBad)>>) }

\* advertisements for the Reading Decoder: empty, 13 and 14 characters,
\* "0000000000001A05", lower-case digits with a fraction of three digits, and
\* characters that are no hexadecimal digits at offsets 10 to 12
Adverts ==
    { <<>>,
      SubSeq(adv2605, 1, 13),
      SubSeq(adv2605, 1, 14),
      adv2605,
      adv(<<"1","a">>, <<"f","f">>),
      advBad,
      adv(<<"1","G">>, <<"0","5">>) }

\* a scan report of one entry, of device "ab", with advertisement a
DecoderMsg(a) == Scan(<<Dev(macab, a)>>)

DecoderMessages == {DecoderMsg(a) : a \in Adverts}

\* spellings of one device: "A:B", "ab" and "A-B"
macA_B == <<"A", "-", "B">>

Spellings == {macAB, macab, macA_B}

\* the same reading, 26.05, of each spelling: as a simplified message through
\* gateway "1" and as a scan report through gateway "2"
IdMessages ==
    {[Json EXCEPT !.beacon_mac = id, !.temperature_c = Num(26050)] :
        id \in Spellings}
    \cup {[Scan(<<Dev(id, adv2605)>>) EXCEPT !.topic = topicGw2] :
        id \in Spellings}

\* scan reports that name one device in several entries: 26.05 and then
\* 26.25 under another spelling; and 26.05 twice with the reading of another
\* device in between
RepeatMessages ==
    { Scan(<<Dev(macab, adv2605), Dev(macAB, adv2625)>>),
      Scan(<<Dev(macAB, adv2605), Dev(macCD, adv2605), Dev(macab, adv2605)>>) }

\* outcomes of the forward POST
Post(kind, status, hasResponse, hasData, error) ==
    [kind |-> kind, status |-> status, hasResponse |-> hasResponse,
     hasData |-> hasData, error |-> error]

PostOutcomes ==
    { Post("resolved", 200, TRUE, TRUE, ""),
      Post("resolved", 204, TRUE, FALSE, ""),
      Post("rejected", 404, TRUE, TRUE, "Beacon not registered"),
      Post("rejected", 400, TRUE, TRUE, "Beacon not registered"),
      Post("rejected", 404, TRUE, TRUE, "Not found"),
      Post("rejected", 404, TRUE, FALSE, ""),
      Post("rejected", 500, TRUE, TRUE, "Internal error"),
      Post("rejected", 0, FALSE, FALSE, "") }

\* no POST has completed
NoPost == Post("none", 0, FALSE, FALSE, "")

\* the outcomes that matter to the Message Router: success, a status other
\* than 200, a failure
RouterPosts ==
    { Post("resolved", 200, TRUE, TRUE, ""),
      Post("resolved", 204, TRUE, FALSE, ""),
      Post("rejected", 0, FALSE, FALSE, "") }

\* outcomes of the allowlist GET
Row(mac, active) == [isNull |-> FALSE, normalized_mac |-> mac, is_active |-> active]
NullRow == [isNull |-> TRUE, normalized_mac |-> <<>>, is_active |-> "null"]

Get(kind, isArray, rows) == [kind |-> kind, isArray |-> isArray, rows |-> rows]

NoResponse == Get("none", FALSE, <<>>)

GetOutcomes ==
    { Get("rejected", FALSE, <<>>),
      Get("resolved", FALSE, <<>>),
      Get("resolved", TRUE, <<>>),
      Get("resolved", TRUE, <<Row(macab, "true"), Row(<<"C","D">>, "null"),
                              Row(macEF, "false")>>),
      Get("resolved", TRUE, <<Row(macAB, "true")>>),
      Get("resolved", TRUE, <<Row(macab, "true"), NullRow>>) }

\* the responses that give the Message Router its allowlists: a failure, no
\* rows, and rows that admit "ab" and "cd" but not "ef"
RouterGets ==
    { Get("rejected", FALSE, <<>>),
      Get("resolved", TRUE, <<>>),
      Get("resolved", TRUE, <<Row(macab, "true"), Row(<<"C","D">>, "null"),
                              Row(macEF, "false")>>) }

\* configurations: BEACON_WHITELIST, whether SUPABASE_FUNCTION_URL yields a
\* REST base, SEND_INTERVAL_SECONDS (in ticks) and MIN_TEMP_DELTA
Config(wl, rest, interval, delta) ==
    [BEACON_WHITELIST |-> wl, REST_BASE |-> rest,
     SEND_INTERVAL_MS |-> interval, TEMP_DELTA |-> delta]

Configs ==
    { Config(<<>>, TRUE, 2, 300),
      Config(<<" ", "A", "B">>, TRUE, 0, 300),
      Config(<<"a", ":", "b", ",", "c", "d">>, FALSE, 2, 0) }

----------------------------------------------------------------------------
\* State machine

Handlers == 1..MaxHandlers

\* The state once the module's top level has run: the startup IIFE has
\* called syncAllowlistFromDB (lines 105-108), which returned at once when
\* there is no REST base, and mqtt.connect has been issued (line 113).
Init ==
    /\ clock = 0
    /\ \E c \in Configs :
            /\ SEND_INTERVAL_MS = c.SEND_INTERVAL_MS
            /\ TEMP_DELTA = c.TEMP_DELTA
            /\ REST_BASE = c.REST_BASE
            /\ BEACON_WHITELIST = c.BEACON_WHITELIST
    /\ allowlistSet = envWhitelistOf(BEACON_WHITELIST)
    /\ lastSentByBeacon = [k \in {} |-> 0]
    /\ sync = [pc |-> IF REST_BASE THEN "fetching" ELSE "idle",
               startup |-> REST_BASE, timer |-> ~REST_BASE,
               res |-> NoResponse, raised |-> FALSE]
    /\ client = "connecting"
    /\ handlers = [h \in Handlers |-> Idle]
    /\ finished = Idle
    /\ delivered = 0
    /\ fwdHist = [k \in {} |-> 0]
    /\ lastPost = [ok |-> TRUE, log |-> "none", out |-> NoPost]

config == <<SEND_INTERVAL_MS, TEMP_DELTA, REST_BASE, BEACON_WHITELIST>>

\* time passes
Tick ==
    /\ clock < MaxTime
    /\ clock' = clock + 1
    /\ UNCHANGED <<config, allowlistSet, lastSentByBeacon, sync, client,
                   handlers, finished, delivered, fwdHist, lastPost>>

\* Lines 123-136: the broker connection is up and the subscription granted
Connect ==
    /\ client = "connecting"
    /\ client' = "subscribed"
    /\ UNCHANGED <<clock, config, allowlistSet, lastSentByBeacon, sync,
                   handlers, finished, delivered, fwdHist, lastPost>>

\* Lines 59-78 after the await, and lines 106-107 for the startup call.
\* audit: the response is kept in sync.res for the properties of the refresh.
synced(res, audit, r) ==
    /\ allowlistSet' = r.allow
    /\ sync' = [pc |-> "idle", startup |-> FALSE,
                timer |-> sync.timer \/ (sync.startup /\ ~r.raised),
                res |-> IF audit THEN res ELSE NoResponse,
                raised |-> r.raised]

SyncDone(res, audit) ==
    /\ sync.pc = "fetching"
    /\ synced(res, audit, syncAllowlistFromDB(res, allowlistSet))
    /\ UNCHANGED <<clock, config, lastSentByBeacon, client, handlers,
                   finished, delivered, fwdHist, lastPost>>

\* Line 107: the interval timer calls syncAllowlistFromDB (lines 59-62).  The
\* GET times out after 5 s and the timer fires every 60 s, so no two calls
\* overlap.
TimerFire ==
    /\ sync.timer
    /\ sync.pc = "idle"
    /\ sync' = IF REST_BASE THEN [sync EXCEPT !.pc = "fetching"] ELSE sync
    /\ UNCHANGED <<clock, config, allowlistSet, lastSentByBeacon, client,
                   handlers, finished, delivered, fwdHist, lastPost>>

\* h is the first slot that holds no invocation in flight
freeSlot(h) ==
    /\ ~awaiting(handlers[h])
    /\ \A g \in Handlers : g < h => awaiting(handlers[g])

\* an invocation that ended leaves its slot and is kept as `finished`
settle(h, hd) ==
    IF awaiting(hd)
        THEN /\ handlers' = [handlers EXCEPT ![h] = hd]
             /\ UNCHANGED finished
        ELSE /\ handlers' = [handlers EXCEPT ![h] = Idle]
             /\ finished' = hd

\* the invocation of slot h has run to hd
advance(h, hd) ==
    /\ settle(h, hd)
    /\ fwdHist' = pushHist(fwdHist, hd, clock)

\* Lines 200-291: the broker delivers message m; the handler runs to its
\* first await or to its end
Deliver(h, m) ==
    /\ client = "subscribed"
    /\ delivered < MaxMsgs
    /\ freeSlot(h)
    /\ advance(h, handleMessage(m, allowlistSet, lastSentByBeacon, clock))
    /\ lastSentByBeacon' = mapAfterMessage(m, allowlistSet, lastSentByBeacon, clock)
    /\ delivered' = delivered + 1
    /\ UNCHANGED <<clock, config, allowlistSet, sync, client, lastPost>>

\* the handler of slot h resumes with the Forwarder's result fw and the map
resumed(h, fw, map) ==
    /\ lastSentByBeacon' = map
    /\ advance(h, resumeAfterForward(handlers[h], fw, allowlistSet, map, clock))

\* Lines 186-197, then 242-243 or 283-290: the POST of handler h completes
\* with outcome out and the handler runs to its next await or to its end.
\* audit: the outcome and the level of the Forwarder's log line are kept in
\* lastPost.
ForwardDone(h, out, audit) ==
    /\ awaiting(handlers[h])
    /\ resumed(h, forwardToSupabase(out),
               mapAfterForward(handlers[h], forwardToSupabase(out),
                               lastSentByBeacon, clock))
    /\ lastPost' = [ok |-> postSucceeded(out),
                    log |-> IF audit THEN forwardToSupabase(out).log ELSE "none",
                    out |-> IF audit THEN out ELSE NoPost]
    /\ UNCHANGED <<clock, config, allowlistSet, sync, client, delivered>>

Next ==
    \/ Tick
    \/ Connect
    \/ \E res \in RouterGets : SyncDone(res, FALSE)
    \/ TimerFire
    \/ \E h \in Handlers, m \in Messages : Deliver(h, m)
    \/ \E h \in Handlers, out \in RouterPosts : ForwardDone(h, out, FALSE)

Spec == Init /\ [][Next]_vars

\* The Allowlist Store on its own, every response of the remote source kept
NextSync ==
    \/ Tick
    \/ Connect
    \/ \E res \in GetOutcomes : SyncDone(res, TRUE)
    \/ TimerFire

SpecSync == Init /\ [][NextSync]_vars

\* The schedule of the refresh: the interval timer of line 107 keeps firing
\* for as long as the process lives, and every GET completes, by a response
\* or by its timeout of 5 s (line 67).
SpecSyncLive ==
    /\ Init
    /\ [][NextSync]_vars
    /\ WF_vars(TimerFire)
    /\ WF_vars(\E res \in GetOutcomes : SyncDone(res, TRUE))

\* The Reading Decoder inside the scan-report loop: scan reports of one entry
\* each, over the advertisements of Adverts
NextDecoder ==
    \/ Tick
    \/ Connect
    \/ \E h \in Handlers, m \in DecoderMessages : Deliver(h, m)
    \/ \E h \in Handlers, out \in RouterPosts : ForwardDone(h, out, FALSE)

SpecDecoder == Init /\ [][NextDecoder]_vars

\* Device identifiers: one reading under each spelling of one device, in
\* both envelope shapes
NextIds ==
    \/ Tick
    \/ Connect
    \/ \E h \in Handlers, m \in IdMessages : Deliver(h, m)
    \/ \E h \in Handlers, out \in RouterPosts : ForwardDone(h, out, FALSE)

SpecIds == Init /\ [][NextIds]_vars

\* The Forwarder: every outcome of the POST, kept with its log level
NextForward ==
    \/ Tick
    \/ Connect
    \/ \E h \in Handlers, m \in IdMessages : Deliver(h, m)
    \/ \E h \in Handlers, out \in PostOutcomes : ForwardDone(h, out, TRUE)

SpecForward == Init /\ [][NextForward]_vars

\* The Allowlist Store beside the message handlers: every response of the
\* remote source kept, refreshes in flight while handlers run
NextStore ==
    \/ Tick
    \/ Connect
    \/ \E res \in GetOutcomes : SyncDone(res, TRUE)
    \/ TimerFire
    \/ \E h \in Handlers, m \in IdMessages : Deliver(h, m)
    \/ \E h \in Handlers, out \in RouterPosts : ForwardDone(h, out, FALSE)

SpecStore == Init /\ [][NextStore]_vars

\* The scan-report loop on reports that repeat a device
NextRepeat ==
    \/ Tick
    \/ Connect
    \/ \E h \in Handlers, m \in RepeatMessages : Deliver(h, m)
    \/ \E h \in Handlers, out \in RouterPosts : ForwardDone(h, out, FALSE)

SpecRepeat == Init /\ [][NextRepeat]_vars

----------------------------------------------------------------------------
\* Vocabulary of the properties

\* every handler invocation the state knows: those in flight and the last ended
Runs == {handlers[h] : h \in Handlers} \cup {finished}

Events(run) == Range(run.trace)

\* the raw identifiers the inputs are written with
RawIds == {macAB, macab, macCD, macEF, <<"C", "D">>, <<"a", ":", "b">>, <<>>}

\* this step is the delivery of a message
IsDeliver == delivered' = delivered + 1

\* the slot whose forward call completes in this step
Resumed(h) == awaiting(handlers[h]) /\ handlers'[h] # handlers[h]

IsForwardDone == \E h \in Handlers : Resumed(h)

IsHandlerStep == IsDeliver \/ IsForwardDone

\* the invocation this step advanced, as it is after the step
SteppedRun ==
    IF \E h \in Handlers : awaiting(handlers'[h]) /\ handlers'[h] # handlers[h]
        THEN handlers'[CHOOSE h \in Handlers :
                          awaiting(handlers'[h]) /\ handlers'[h] # handlers[h]]
        ELSE finished'

\* the decisions this step added to the trace of that invocation
NewEvents ==
    LET old == IF IsDeliver THEN 0
               ELSE Len(handlers[CHOOSE h \in Handlers : Resumed(h)].trace)
    IN  {SteppedRun.trace[i] : i \in (old + 1)..Len(SteppedRun.trace)}

\* this step completes a refresh
IsSyncDone == sync.pc = "fetching" /\ sync'.pc = "idle"

\* the key the record of device d has changed or appeared in this step
RecordChanged(d) ==
    /\ d \in DOMAIN lastSentByBeacon'
    /\ (d \in DOMAIN lastSentByBeacon => lastSentByBeacon'[d] # lastSentByBeacon[d])

----------------------------------------------------------------------------
\* C1: any two consecutive forwards of one canonical device are at least
\* SEND_INTERVAL_MS apart, or the second temperature differs from the first
\* by at least TEMP_DELTA (also when handlers of one device overlap).
C1_OncePerWindow ==
    \A d \in DOMAIN fwdHist :
        Len(fwdHist[d]) = 2 =>
            \/ fwdHist[d][2].ts - fwdHist[d][1].ts >= SEND_INTERVAL_MS
            \/ jsGeq(absDiff(fwdHist[d][2].temp, fwdHist[d][1].temp), TEMP_DELTA)

\* C2: the throttle decision as the precedence rule states it, on the
\* record, the temperature and the clock the decision was taken with
ThrottleRule(mac, temp, lastSent, now) ==
    LET d == normalizeMac(mac)
    IN  IF d \notin DOMAIN lastSent THEN TRUE
        ELSE IF jsGeq(absDiff(temp, lastSent[d].temp), TEMP_DELTA) THEN TRUE
        ELSE now - lastSent[d].tsMs >= SEND_INTERVAL_MS

\* C2: every throttle decision a handler takes follows the precedence (1) no
\* record: send, (2) delta reached: send, (3) otherwise send exactly when the
\* interval has elapsed; a reading equal to the one just marked is throttled
\* while interval and delta are positive and sent once the interval elapsed.
C2_ThrottlePrecedence ==
    [][IsHandlerStep =>
        \A e \in NewEvents :
            e.ev \in {"throttled", "forward"} =>
                /\ (e.ev = "forward") <=>
                       ThrottleRule(e.mac, e.temp, lastSentByBeacon', clock')
                /\ LET d == normalizeMac(e.mac)
                   IN  (/\ d \in DOMAIN lastSentByBeacon'
                        /\ e.temp.t = "number"
                        /\ lastSentByBeacon'[d].temp = e.temp) =>
                           /\ (/\ lastSentByBeacon'[d].tsMs = clock'
                               /\ SEND_INTERVAL_MS > 0
                               /\ TEMP_DELTA > 0) => e.ev = "throttled"
                           /\ clock' - lastSentByBeacon'[d].tsMs >= SEND_INTERVAL_MS
                                  => e.ev = "forward"]_vars

\* C2 witness: a reading was throttled by rule (3) and the same reading of
\* the same device was sent once the interval had elapsed
C2_Witness ==
    /\ SEND_INTERVAL_MS > 0
    /\ TEMP_DELTA > 0
    /\ \E e \in Events(finished) :
        /\ e.ev = "throttled"
        /\ normalizeMac(e.mac) \in DOMAIN lastSentByBeacon
    /\ \E h \in Handlers, d \in DOMAIN lastSentByBeacon :
        /\ awaiting(handlers[h])
        /\ normalizeMac(handlers[h].body.mac_address) = d
        /\ handlers[h].body.temperature = lastSentByBeacon[d].temp
        /\ clock - lastSentByBeacon[d].tsMs >= SEND_INTERVAL_MS

\* C3: the throttle record of a device changes only when the forward call
\* that just completed was a successful hand-off.
C3_MarkOnlyOnSuccess ==
    [][(\E d \in DOMAIN lastSentByBeacon' : RecordChanged(d)) => lastPost'.ok]_vars

\* C4: a handler step changes the throttle map only by the markSent of the
\* reading whose forward call has just completed: the delivery of a message
\* changes no record, and the readings a step drops (invalid JSON, no
\* address, no temperature, allowlist, throttle) leave every record as it is.
C4_DropsLeaveMap ==
    [][/\ IsDeliver => lastSentByBeacon' = lastSentByBeacon
       /\ DOMAIN lastSentByBeacon \subseteq DOMAIN lastSentByBeacon'
       /\ \A d \in DOMAIN lastSentByBeacon' :
            RecordChanged(d) =>
                \E h \in Handlers :
                    /\ Resumed(h)
                    /\ d = normalizeMac(handlers[h].body.mac_address)
                    /\ lastSentByBeacon'[d] =
                          [tsMs |-> clock, temp |-> handlers[h].body.temperature]
      ]_vars

\* C4 witness: one message whose entries were dropped for want of an
\* address, for want of a temperature and by the throttle, with records in
\* the map
C4_Witness ==
    /\ DOMAIN lastSentByBeacon # {}
    /\ {"no_addr", "no_temperature", "throttled"} \subseteq
            {e.ev : e \in Events(finished)}

\* C5: a refresh whose GET fails leaves the allowlist, and with it every
\* isAllowed result, as it was, and raises nothing.
C5_FailedFetchKeepsSet ==
    [][(IsSyncDone /\ sync'.res.kind = "rejected") =>
        /\ allowlistSet' = allowlistSet
        /\ \A x \in RawIds :
              shouldForwardMac(x, allowlistSet') = shouldForwardMac(x, allowlistSet)
        /\ ~sync'.raised]_vars

\* C5 witness: a failed refresh after a successful one, the allowlist still
\* holding what the successful one fetched
C5_Witness ==
    /\ sync.res.kind = "rejected"
    /\ allowlistSet # {}
    /\ allowlistSet # envWhitelist

\* C6: a refresh whose response body is no list of rows leaves the allowlist
\* as it was.
C6_MalformedKeepsSet ==
    [][(IsSyncDone /\ sync'.res.kind = "resolved" /\ ~sync'.res.isArray) =>
        allowlistSet' = allowlistSet]_vars

\* C7: the allowlist check of every reading is true exactly when the
\* allowlist is empty or holds the canonical identifier, and a reading is
\* handed to the Forwarder only when that check was true in the step that
\* handled it.
C7_ForwardOnlyIfAllowed ==
    [][IsHandlerStep =>
        \A e \in NewEvents :
            LET isAllowed == \/ allowlistSet = {}
                             \/ normalizeMac(e.mac) \in allowlistSet
            IN  /\ e.ev = "forward" => isAllowed
                /\ e.ev = "allowlist" => ~isAllowed
                /\ e.ev \in {"no_addr", "allowlist", "no_temperature",
                             "throttled", "forward"} =>
                        (e.cond.allowed <=> isAllowed)]_vars

\* C7 witness: under a non-empty allowlist one message has had a reading
\* rejected and a reading, written "A:B" or not, handed to the Forwarder
C7_Witness ==
    /\ allowlistSet # {}
    /\ \E run \in Runs :
        /\ \E e \in Events(run) : e.ev = "allowlist"
        /\ \E e \in Events(run) : e.ev = "forward"

\* the allowlist the specification expects of a successful refresh
CanonicalAllowlist(res) ==
    ({normalizeMac(r.normalized_mac) :
        r \in {q \in Range(res.rows) : q.is_active # "false"}}
     \cup {normalizeMac(trim(b)) : b \in Range(split(BEACON_WHITELIST, ","))})
    \ {<<>>}

\* C8: after a successful refresh the allowlist is the canonical identifiers
\* of the active rows and of the bootstrap entries, so every identifier whose
\* canonical form is that of an entry or an active row is allowed.
C8_RefreshCanonical ==
    (/\ sync.res.kind = "resolved"
     /\ sync.res.isArray
     /\ \A i \in DOMAIN sync.res.rows : ~sync.res.rows[i].isNull) =>
        /\ allowlistSet = CanonicalAllowlist(sync.res)
        /\ \A x \in RawIds :
              normalizeMac(x) \in CanonicalAllowlist(sync.res) =>
                  shouldForwardMac(x, allowlistSet)

\* C9: no message is handled while the startup refresh is still in flight.
C9_StartupRefreshFirst == sync.startup => delivered = 0

\* C10: of one scan report the handler forwards exactly the entries that
\* have an address, decode to a temperature, are allowed and pass the
\* throttle, in the order of the entries; the count is logged at most once,
\* after the last forward, and only when it is positive.
C10_ScanForwards ==
    \A run \in Runs :
        run.kind = "scan" =>
            LET entries == SelectSeq(run.trace, LAMBDA e : e.ev # "count")
                counts == SelectSeq(run.trace, LAMBDA e : e.ev = "count")
                sent == SelectSeq(run.trace, LAMBDA e : e.ev = "forward")
            IN  /\ \A i \in DOMAIN entries : entries[i].idx = i
                /\ run.pc = "done" => Len(entries) = run.n
                /\ \A i \in DOMAIN entries :
                      (entries[i].ev = "forward") <=>
                          /\ entries[i].cond.hasAddr
                          /\ entries[i].temp.t = "number"
                          /\ entries[i].cond.allowed
                          /\ entries[i].cond.pass
                /\ Len(counts) <= 1
                /\ counts # <<>> =>
                      /\ run.trace[Len(run.trace)].ev = "count"
                      /\ counts[1].idx = Len(sent)
                      /\ counts[1].idx > 0

\* the temperature the claim selects: temperature_c, then temperature, then
\* temp_c, the first that is a number
SelectedTemperature(m) ==
    IF m.temperature_c.t = "number" THEN m.temperature_c
    ELSE IF m.temperature.t = "number" THEN m.temperature
    ELSE IF m.temp_c.t = "number" THEN m.temp_c
    ELSE Undefined

\* the payload the claim expects of a simplified reading
ExpectedPayload(m) ==
    [mac_address |-> m.beacon_mac,
     temperature |-> SelectedTemperature(m),
     battery |-> IF m.battery_mv.t = "number" THEN m.battery_mv
                 ELSE IF m.battery.t = "number" THEN m.battery
                 ELSE Num(0),
     gateway_mac |-> split(m.topic, "/")[2]]

IsSimplified(m) == m.valid /\ m.beacon_mac # <<>>

Forwards(run) == Len(SelectSeq(run.trace, LAMBDA e : e.ev = "forward"))

\* the invocation that the delivery of m starts in the current state
Started(m) == handleMessage(m, allowlistSet, lastSentByBeacon, clock)

\* C11: the delivery of a simplified message whose device is allowed, has no
\* throttle record and carries a numeric temperature under an alias makes
\* exactly one forward call, with the raw identifier, the temperature of the
\* first numeric alias (temperature_c, temperature, temp_c), the battery of
\* battery_mv, else battery, else 0, and the second topic segment; the
\* handler ends after that call without another one; a simplified message
\* without numeric temperature makes no forward call.
C11_SimplifiedForward ==
    [][/\ IsDeliver =>
            \A m \in Messages :
                (IsSimplified(m) /\ SteppedRun = Started(m)) =>
                    /\ (/\ shouldForwardMac(m.beacon_mac, allowlistSet)
                        /\ normalizeMac(m.beacon_mac) \notin DOMAIN lastSentByBeacon
                        /\ SelectedTemperature(m).t = "number") =>
                            /\ SteppedRun.pc = "awaitSimple"
                            /\ Forwards(SteppedRun) = 1
                            /\ SteppedRun.body = ExpectedPayload(m)
                    /\ SelectedTemperature(m).t # "number" =>
                            /\ SteppedRun.pc = "done"
                            /\ Forwards(SteppedRun) = 0
       /\ \A h \in Handlers :
            (Resumed(h) /\ handlers[h].pc = "awaitSimple") =>
                /\ finished'.pc = "done"
                /\ finished'.trace = handlers[h].trace
                /\ Forwards(finished') = 1
      ]_vars

\* C11 witness: under an allowlist that holds "ab", the reading of "A:B" with
\* temperature_c 26.0, temperature 26.3, battery_mv 3100 and battery 3000 is in
\* its forward call, and a simplified message without temperature has ended
C11_Witness ==
    /\ allowlistSet # {}
    /\ \E h \in Handlers :
        /\ handlers[h].pc = "awaitSimple"
        /\ handlers[h].body = [mac_address |-> macAB, temperature |-> Num(26000),
                               battery |-> Num(3100), gateway_mac |-> <<"1">>]
    /\ finished.kind = "simplified"
    /\ finished.trace[1].ev = "no_temperature"

NonHexAt(a) == Len(a) >= 14 /\ \E i \in 11..14 : hexVal(a[i]) < 0

\* C13: an entry whose advertisement has characters that are no hexadecimal
\* digits at offsets 10 to 14 has no temperature, is not handed to the
\* Forwarder, and no throttle record is created or updated for it.
C13_NonHexDropped ==
    [][/\ IsDeliver =>
            \A a \in Adverts :
                (NonHexAt(a) /\ SteppedRun = Started(DecoderMsg(a))) =>
                    /\ SteppedRun.trace[1].temp = Undefined
                    /\ Forwards(SteppedRun) = 0
       /\ \A h \in Handlers :
            (/\ Resumed(h)
             /\ handlers[h].pc = "awaitScan"
             /\ NonHexAt(handlers[h].devs[handlers[h].idx].adv_raw)) =>
                lastSentByBeacon' = lastSentByBeacon
      ]_vars

\* the canonical form of the specification: lower case, separators removed
Bare(id) == SelectSeq(toLowerCase(id), LAMBDA c : c \notin {":", "-"})

\* the raw identifiers the handlers have met
SeenIds == {e.mac : e \in UNION {Events(run) : run \in Runs}}

\* C14: canonicalization is idempotent, and identifiers that differ only by
\* letter case or separators (':' or '-') have the same canonical form: on
\* the identifiers the handlers have met, and so every key of the throttle
\* map is free of separators and upper-case letters.
C14_Canonicalization ==
    /\ \A a \in SeenIds : normalizeMac(normalizeMac(a)) = normalizeMac(a)
    /\ \A a, b \in SeenIds : Bare(a) = Bare(b) => normalizeMac(a) = normalizeMac(b)
    /\ \A k \in DOMAIN lastSentByBeacon : Bare(k) = k

\* C15: the delivery of a message whose body is not valid JSON ends the
\* handler at once and without fault, makes no forward call, leaves the
\* allowlist, the throttle map, the refresh task and the handlers in flight
\* as they were, and every message is handled after it as it would have
\* been handled instead of it.
C15_InvalidJsonDropped ==
    [][IsDeliver =>
        \A m \in Messages :
            (~m.valid /\ SteppedRun = Started(m)) =>
                /\ SteppedRun.pc = "done"
                /\ SteppedRun.kind = "invalid"
                /\ Forwards(SteppedRun) = 0
                /\ fwdHist' = fwdHist
                /\ handlers' = handlers
                /\ allowlistSet' = allowlistSet
                /\ lastSentByBeacon' = lastSentByBeacon
                /\ sync' = sync
                /\ client' = client
                /\ \A later \in Messages :
                      handleMessage(later, allowlistSet', lastSentByBeacon', clock')
                          = Started(later)]_vars

\* C15 witness: a message that is not valid JSON has been dropped while the
\* throttle map held a record
C15_Witness ==
    /\ finished.kind = "invalid"
    /\ finished.pc = "done"
    /\ DOMAIN lastSentByBeacon # {}

\* the failed request says "device not registered": by the structured error
\* field of its body, or by the status 404
NotRegistered(out) ==
    \/ out.hasResponse /\ out.hasData /\ out.error = "Beacon not registered"
    \/ out.hasResponse /\ out.status = 404

\* C16: a failed request that says "device not registered", by the error
\* field or by the status 404 with or without a body, is logged at debug
\* level; every other failed request is logged as an error; the forward call
\* raises nothing to the handler.
C16_NotRegisteredIsDebug ==
    [][IsForwardDone =>
        /\ lastPost'.out.kind = "rejected" =>
              IF NotRegistered(lastPost'.out)
                  THEN lastPost'.log = "debug"
                  ELSE lastPost'.log = "error"
        /\ ~forwardToSupabase(lastPost'.out).raised
        /\ SteppedRun.kind # "faulted"]_vars

\* the refresh that got response res was successful
Successful(res) ==
    /\ res.kind = "resolved"
    /\ res.isArray
    /\ \A i \in DOMAIN res.rows : ~res.rows[i].isNull

\* the complete result of that refresh: the identifiers of the rows that are
\* not inactive, as the store keeps them, with the bootstrap set
CompleteResult(res) ==
    ({toLowerCase(res.rows[i].normalized_mac) :
        i \in {j \in DOMAIN res.rows : res.rows[j].is_active # "false"}} \ {<<>>})
    \cup envWhitelist

\* C17: the allowlist starts as the bootstrap set and changes only in the
\* step that completes a refresh, where it becomes the complete result of
\* that refresh (or the bootstrap set alone); every bootstrap entry is a
\* member throughout; and each membership check of a handler, also one made
\* while a refresh is in flight, is answered from that whole set.
C17_AtomicReplacement ==
    [][/\ sync.res = NoResponse => allowlistSet = envWhitelist
       /\ envWhitelist \subseteq allowlistSet
       /\ envWhitelist \subseteq allowlistSet'
       /\ IF IsSyncDone
            THEN \/ allowlistSet' = allowlistSet
                 \/ allowlistSet' = envWhitelist
                 \/ Successful(sync'.res) /\ allowlistSet' = CompleteResult(sync'.res)
            ELSE allowlistSet' = allowlistSet
       /\ IsHandlerStep =>
            \A e \in NewEvents :
                e.ev \in {"allowlist", "no_temperature", "throttled", "forward"} =>
                    (e.cond.allowed <=>
                        (allowlistSet = {} \/ normalizeMac(e.mac) \in allowlistSet))
      ]_vars

\* C17 witness: a handler has had its membership check answered from the
\* result of a completed refresh that holds remote rows, and is in its
\* forward call while the next refresh is in flight
C17_Witness ==
    /\ sync.pc = "fetching"
    /\ Successful(sync.res)
    /\ allowlistSet = CompleteResult(sync.res)
    /\ allowlistSet # envWhitelist
    /\ \E h \in Handlers :
        /\ awaiting(handlers[h])
        /\ normalizeMac(handlers[h].body.mac_address) \in allowlistSet

\* C18: with a remote source configured, a refresh attempt is made again
\* and again, whatever the outcomes of the startup refresh and of the later
\* ones; and a refresh that succeeds, also after failed ones, puts its
\* result into the allowlist.
C18_ScheduleSurvivesFailure ==
    /\ [](REST_BASE => <>(sync.pc = "fetching"))
    /\ [][(IsSyncDone /\ Successful(sync'.res)) =>
            allowlistSet' = CompleteResult(sync'.res)]_vars

\* C18 witness: after a failed refresh that left the fetched set in place,
\* the next attempt is in flight
C18_Witness ==
    /\ sync.res.kind = "rejected"
    /\ ~sync.startup
    /\ sync.pc = "fetching"
    /\ allowlistSet # envWhitelist

\* C19: once a reading of identifier X has been forwarded and marked sent, a
\* reading with the same temperature of any identifier Y that is a spelling
\* of the same device, handled before the interval has elapsed (and with a
\* positive delta threshold), is throttled, whichever envelope shape and
\* gateway the two readings came through.
C19_ThrottleByCanonicalKey ==
    [][IsDeliver =>
        \A x \in Events(finished) :
            (/\ finished.pc = "done"
             /\ x.ev = "forward"
             /\ normalizeMac(x.mac) \in DOMAIN lastSentByBeacon
             /\ lastSentByBeacon[normalizeMac(x.mac)].temp = x.temp) =>
                \A e \in NewEvents :
                    (/\ Bare(e.mac) = Bare(x.mac)
                     /\ e.temp = x.temp
                     /\ e.cond.hasAddr
                     /\ e.cond.allowed
                     /\ TEMP_DELTA > 0
                     /\ clock - lastSentByBeacon[normalizeMac(x.mac)].tsMs
                            < SEND_INTERVAL_MS) =>
                        e.ev = "throttled"]_vars

\* the temperatures a and b are numbers less than TEMP_DELTA apart
WithinDelta(a, b) ==
    a.t = "number" /\ b.t = "number" /\ Abs(a.v - b.v) < TEMP_DELTA

\* C20: when the forward of a scan-report entry completes, the entries that
\* follow it in the same message are checked against a throttle map that
\* already holds the record of that forward: a later entry of the same
\* device, less than the delta threshold away, is throttled (the interval
\* being positive).  After the forward of another device in between, a
\* later entry of the device still finds the record, and is throttled while
\* the interval has not elapsed since that record.
C20_ScanSeesEarlierForwards ==
    [][\A h \in Handlers :
        (Resumed(h) /\ handlers[h].pc = "awaitScan") =>
            \A e \in NewEvents :
                e.ev \in {"throttled", "forward"} =>
                    /\ normalizeMac(e.mac) = normalizeMac(handlers[h].body.mac_address) =>
                        /\ normalizeMac(e.mac) \in DOMAIN lastSentByBeacon'
                        /\ lastSentByBeacon'[normalizeMac(e.mac)] =
                              [tsMs |-> clock, temp |-> handlers[h].body.temperature]
                        /\ (/\ WithinDelta(e.temp, handlers[h].body.temperature)
                            /\ SEND_INTERVAL_MS > 0) => e.ev = "throttled"
                    /\ \A x \in Events(handlers[h]) :
                        (x.ev = "forward" /\ normalizeMac(x.mac) = normalizeMac(e.mac)) =>
                            /\ normalizeMac(e.mac) \in DOMAIN lastSentByBeacon'
                            /\ (/\ WithinDelta(e.temp,
                                       lastSentByBeacon'[normalizeMac(e.mac)].temp)
                                /\ clock - lastSentByBeacon'[normalizeMac(e.mac)].tsMs
                                       < SEND_INTERVAL_MS) => e.ev = "throttled"
      ]_vars

\* C20 witness: of one scan report the first entry of a device was forwarded
\* and a later entry of the same device, less than the threshold away, was
\* throttled, so that the message forwarded one reading
C20_Witness ==
    /\ finished.kind = "scan"
    /\ finished.pc = "done"
    /\ Len(finished.trace) >= 3
    /\ finished.trace[1].ev = "forward"
    /\ finished.trace[2].ev = "throttled"
    /\ normalizeMac(finished.trace[2].mac) = normalizeMac(finished.trace[1].mac)
    /\ WithinDelta(finished.trace[1].temp, finished.trace[2].temp)
    /\ finished.trace[Len(finished.trace)].ev = "count"
    /\ finished.trace[Len(finished.trace)].idx = 1

====
